---- MODULE Spec2Model ----
(***************************************************************************)
(* Model of the deduplicated Merkle node store (src/merkle/store/mod.rs):  *)
(* GenericMerkleStore over a plain map (MerkleStore) and over a recording  *)
(* map (RecordingMerkleStore).                                             *)
(*                                                                         *)
(* Digests are modelled as terms so that the compression function is       *)
(* collision free, which is the property the store relies on:              *)
(*   <<n>>        a caller supplied word (<<0>> is RpoDigest::default()),  *)
(*   <<h, 0, 0>>  the root of the empty subtree of height h >= 1,          *)
(*   <<l, r>>     the compression of the digests l and r.                  *)
(* The three shapes have different lengths, so they are never confused.    *)
(***************************************************************************)
EXTENDS Integers, Sequences, FiniteSets, TLC

VARIABLES
    nodes,      \* GenericMerkleStore.nodes of the plain store: digest -> Node
    last,       \* the last operation on the plain store: [op, args, ret]
    steps,      \* number of operations performed so far
    trees,      \* leaf vectors of the trees whose inner nodes were ingested
    part,       \* the store returned by the latest subset call, owned by the
                \* caller; <<>> while subset has not been called
    rec         \* the recording store made from the plain store:
                \*   phase  "plain" (not converted), "recording", "proved"
                \*   data   RecordingMap data: digest -> Node
                \*   trace  RecordingMap read history: digest -> Node
                \*   reads  the reads performed, each [op, args, ret]
                \*   proof  the map returned by into_proof

vars == <<nodes, last, steps, trees, rec, part>>

----------------------------------------------------------------------------
\* Bounds of the model

\* deepest NodeIndex / longest MerklePath the model enumerates
MaxDepth == 2

\* number of store operations in one behaviour
MaxSteps == 2

\* words callers supply as leaves are <<0>> .. <<MaxLeaf>>
MaxLeaf == 1

----------------------------------------------------------------------------
\* Digests, compression, empty subtrees

\* depth of the precomputed empty-subtree table (EmptySubtreeRoots::empty_hashes(255))
EmptyDepth == 255

\* largest depth NodeIndex::new accepts (u64::BITS)
MaxIndexDepth == 64

Leaf(n) == <<n>>

\* RpoDigest::default(): the all-zero word, which is also the empty leaf
DefaultDigest == Leaf(0)

\* root of the empty subtree of height h (h = 0: the empty leaf)
EmptyRoot(h) == IF h = 0 THEN DefaultDigest ELSE <<h, 0, 0>>

IsEmptyRoot(d) == d = DefaultDigest \/ Len(d) = 3

EmptyHeight(d) == IF d = DefaultDigest THEN 0 ELSE d[1]

\* Rpo256::merge(&[left, right])
merge(left, right) ==
    IF left = right /\ IsEmptyRoot(left) /\ EmptyHeight(left) < EmptyDepth
    THEN EmptyRoot(EmptyHeight(left) + 1)
    ELSE <<left, right>>

\* EmptySubtreeRoots::empty_hashes(depth): entry i is the root of an empty
\* subtree at depth i of a tree of the given depth (a 0-indexed slice)
EmptySubtreeRoots(depth) == [i \in 0..depth |-> EmptyRoot(depth - i)]

Node(left, right) == [left |-> left, right |-> right]

NodeIndex(depth, value) == [depth |-> depth, value |-> value]

Pow2(n) == 2 ^ n

\* (value >> i) & 1; the values of the model are below 2^31, so the bits
\* from 31 upwards are 0
Bit(value, i) == IF i >= 31 THEN 0 ELSE (value \div Pow2(i)) % 2

\* NodeIndex::new(depth, value): the error it returns, or "none"; the values
\* of the model are below 2^31, so they fit in depth bits whenever depth >= 31
NodeIndexError(depth, value) ==
    IF depth > MaxIndexDepth THEN <<"Err", "DepthTooBig", depth>>
    ELSE IF depth < 31 /\ value >= Pow2(depth) THEN <<"Err", "InvalidNodeIndex", depth, value>>
    ELSE "none"

Ok(v) == <<"Ok", v>>
IsOk(r) == r[1] = "Ok"

RECURSIVE Reverse(_)
Reverse(s) == IF s = <<>> THEN <<>> ELSE Append(Reverse(Tail(s)), Head(s))

----------------------------------------------------------------------------
\* The key/value backend (KvMap over BTreeMap<RpoDigest, Node>)

Keys(m) == DOMAIN m

\* KvMap::insert: adds the entry, replacing the value of an existing key
insert(m, k, v) == (k :> v) @@ m

\* the (key, node) pairs of a map, and a map built from a set of pairs with
\* distinct keys
Entries(m) == {<<k, m[k]>> : k \in DOMAIN m}

\* empty_hashes() without the entry whose children are the empty leaves
empty_hashes_without_leaf_level ==
    LET subtrees == EmptySubtreeRoots(EmptyDepth)
    IN  {<<subtrees[i], Node(subtrees[i + 1], subtrees[i + 1])>> : i \in 0..(EmptyDepth - 2)}

\* empty_hashes(): (parent, Node{child, child}) for consecutive entries of
\* the empty-subtree table, leaf upwards
empty_hashes ==
    LET subtrees == EmptySubtreeRoots(EmptyDepth)
    IN  {<<subtrees[i], Node(subtrees[i + 1], subtrees[i + 1])>> : i \in 0..(EmptyDepth - 1)}

\* collect(): a map from a set of (key, node) pairs
FromPairs(ps) ==
    [k \in {p[1] : p \in ps} |-> (CHOOSE p \in ps : p[1] = k)[2]]

\* GenericMerkleStore::new()
new == FromPairs(empty_hashes)

\* num_internal_nodes()
num_internal_nodes(m) == Cardinality(DOMAIN m)

\* keys of a store beyond the bootstrap entries
ExtraKeys(m) == DOMAIN m \ DOMAIN new

----------------------------------------------------------------------------
\* Lookup

\* the loop of get_node reading the index bits from bit 0 upwards
RECURSIVE get_node_loop_lsb_first(_, _, _, _)
get_node_loop_lsb_first(m, hash, index, i) ==
    IF i = 0 THEN Ok(hash)
    ELSE IF hash \notin DOMAIN m THEN <<"Err", "NodeNotInStore", hash, index>>
    ELSE LET node == m[hash]
             bit == Bit(index.value, index.depth - i)
         IN  get_node_loop_lsb_first(m, IF bit = 0 THEN node.left ELSE node.right, index, i - 1)

\* the loop of get_node with i iterations left
RECURSIVE get_node_loop(_, _, _, _)
get_node_loop(m, hash, index, i) ==
    IF i = 0 THEN Ok(hash)
    ELSE IF hash \notin DOMAIN m THEN <<"Err", "NodeNotInStore", hash, index>>
    ELSE LET node == m[hash]
             bit == Bit(index.value, i - 1)
         IN  get_node_loop(m, IF bit = 0 THEN node.left ELSE node.right, index, i - 1)

\* GenericMerkleStore::get_node
get_node(m, root, index) ==
    IF root \notin DOMAIN m THEN <<"Err", "RootNotInStore", root>>
    ELSE get_node_loop(m, root, index, index.depth)

ValuePath(value, path) == [value |-> value, path |-> path]

\* get_path without the final path.reverse()
RECURSIVE get_path_loop_unreversed(_, _, _, _, _)
get_path_loop_unreversed(m, hash, index, i, path) ==
    IF i = 0 THEN Ok(ValuePath(hash, path))
    ELSE IF hash \notin DOMAIN m THEN <<"Err", "NodeNotInStore", hash, index>>
    ELSE LET node == m[hash]
             bit == Bit(index.value, i - 1)
         IN  IF bit = 0
             THEN get_path_loop_unreversed(m, node.left, index, i - 1, Append(path, node.right))
             ELSE get_path_loop_unreversed(m, node.right, index, i - 1, Append(path, node.left))

\* the loop of get_path with i iterations left; path is collected root-to-leaf
RECURSIVE get_path_loop(_, _, _, _, _)
get_path_loop(m, hash, index, i, path) ==
    IF i = 0 THEN Ok(ValuePath(hash, Reverse(path)))
    ELSE IF hash \notin DOMAIN m THEN <<"Err", "NodeNotInStore", hash, index>>
    ELSE LET node == m[hash]
             bit == Bit(index.value, i - 1)
         IN  IF bit = 0
             THEN get_path_loop(m, node.left, index, i - 1, Append(path, node.right))
             ELSE get_path_loop(m, node.right, index, i - 1, Append(path, node.left))

\* get_path without the lookup of the root before the loop
get_path_unchecked_root(m, root, index) ==
    get_path_loop(m, root, index, index.depth, <<>>)

\* GenericMerkleStore::get_path
get_path(m, root, index) ==
    IF root \notin DOMAIN m THEN <<"Err", "RootNotInStore", root>>
    ELSE get_path_loop(m, root, index, index.depth, <<>>)

\* the path bits of get_leaf_depth taken from the index without the reversal
PathBit_unreversed(index, tree_depth, depth) == Bit(index, depth)

\* bit of index read at the given depth by get_leaf_depth: bit `depth` of
\* (index << (64 - tree_depth)).reverse_bits(), which is bit
\* tree_depth - 1 - depth of index
PathBit(index, tree_depth, depth) == Bit(index, tree_depth - 1 - depth)

\* the loop of get_leaf_depth from the given depth, and the check after it
RECURSIVE get_leaf_depth_loop(_, _, _, _, _)
get_leaf_depth_loop(m, hash, tree_depth, index, depth) ==
    IF depth = tree_depth
    THEN IF hash \in DOMAIN m THEN <<"Err", "DepthTooBig", tree_depth + 1>>
         ELSE Ok(tree_depth)
    ELSE IF hash = EmptySubtreeRoots(tree_depth)[depth] THEN Ok(depth)
    ELSE IF hash \notin DOMAIN m THEN Ok(depth)
    ELSE LET children == m[hash]
         IN  get_leaf_depth_loop(m,
                 IF PathBit(index, tree_depth, depth) = 0 THEN children.left ELSE children.right,
                 tree_depth, index, depth + 1)

\* get_leaf_depth entering the loop without looking the root up
get_leaf_depth_unchecked_root(m, root, tree_depth, index) ==
    IF tree_depth > MaxIndexDepth THEN <<"Err", "DepthTooBig", tree_depth>>
    ELSE IF NodeIndexError(tree_depth, index) # "none" THEN NodeIndexError(tree_depth, index)
    ELSE IF tree_depth = 0 THEN Ok(0)
    ELSE get_leaf_depth_loop(m, root, tree_depth, index, 0)

\* get_leaf_depth looking the root up before validating depth and index
get_leaf_depth_root_first(m, root, tree_depth, index) ==
    IF root \notin DOMAIN m THEN <<"Err", "RootNotInStore", root>>
    ELSE IF tree_depth > MaxIndexDepth THEN <<"Err", "DepthTooBig", tree_depth>>
    ELSE IF NodeIndexError(tree_depth, index) # "none" THEN NodeIndexError(tree_depth, index)
    ELSE IF tree_depth = 0 THEN Ok(0)
    ELSE get_leaf_depth_loop(m, root, tree_depth, index, 0)

\* GenericMerkleStore::get_leaf_depth
get_leaf_depth(m, root, tree_depth, index) ==
    IF tree_depth > MaxIndexDepth THEN <<"Err", "DepthTooBig", tree_depth>>
    ELSE IF NodeIndexError(tree_depth, index) # "none" THEN NodeIndexError(tree_depth, index)
    ELSE IF tree_depth = 0 THEN Ok(0)
    ELSE IF root \notin DOMAIN m THEN <<"Err", "RootNotInStore", root>>
    ELSE get_leaf_depth_loop(m, root, tree_depth, index, 0)

----------------------------------------------------------------------------
\* The same lookups on the recording backend.  A read yields
\* [ret |-> result, trace |-> the read history afterwards].

\* RecordingMap::get / contains_key: a key found in the data is added to the
\* read history with its value the first time it is seen
Touch(data, trace, key) ==
    IF key \in DOMAIN data /\ key \notin DOMAIN trace THEN insert(trace, key, data[key])
    ELSE trace

RECURSIVE rec_get_node_loop(_, _, _, _, _)
rec_get_node_loop(data, trace, hash, index, i) ==
    IF i = 0 THEN [ret |-> Ok(hash), trace |-> trace]
    ELSE IF hash \notin DOMAIN data
         THEN [ret |-> <<"Err", "NodeNotInStore", hash, index>>, trace |-> trace]
    ELSE LET node == data[hash]
             bit == Bit(index.value, i - 1)
         IN  rec_get_node_loop(data, Touch(data, trace, hash),
                               IF bit = 0 THEN node.left ELSE node.right, index, i - 1)

\* get_node on the recording store with the root checked without a lookup
\* through the backend
rec_get_node_unrecorded_root(data, trace, root, index) ==
    IF root \notin DOMAIN data THEN [ret |-> <<"Err", "RootNotInStore", root>>, trace |-> trace]
    ELSE rec_get_node_loop(data, trace, root, index, index.depth)

\* GenericMerkleStore<RecordingMerkleMap>::get_node
rec_get_node(data, trace, root, index) ==
    IF root \notin DOMAIN data THEN [ret |-> <<"Err", "RootNotInStore", root>>, trace |-> trace]
    ELSE rec_get_node_loop(data, Touch(data, trace, root), root, index, index.depth)

RECURSIVE rec_get_path_loop(_, _, _, _, _, _)
rec_get_path_loop(data, trace, hash, index, i, path) ==
    IF i = 0 THEN [ret |-> Ok(ValuePath(hash, Reverse(path))), trace |-> trace]
    ELSE IF hash \notin DOMAIN data
         THEN [ret |-> <<"Err", "NodeNotInStore", hash, index>>, trace |-> trace]
    ELSE LET node == data[hash]
             bit == Bit(index.value, i - 1)
             seen == Touch(data, trace, hash)
         IN  IF bit = 0
             THEN rec_get_path_loop(data, seen, node.left, index, i - 1, Append(path, node.right))
             ELSE rec_get_path_loop(data, seen, node.right, index, i - 1, Append(path, node.left))

\* GenericMerkleStore<RecordingMerkleMap>::get_path
rec_get_path(data, trace, root, index) ==
    IF root \notin DOMAIN data THEN [ret |-> <<"Err", "RootNotInStore", root>>, trace |-> trace]
    ELSE rec_get_path_loop(data, Touch(data, trace, root), root, index, index.depth, <<>>)

RECURSIVE rec_get_leaf_depth_loop(_, _, _, _, _, _)
rec_get_leaf_depth_loop(data, trace, hash, tree_depth, index, depth) ==
    IF depth = tree_depth
    THEN IF hash \in DOMAIN data
         THEN [ret |-> <<"Err", "DepthTooBig", tree_depth + 1>>, trace |-> Touch(data, trace, hash)]
         ELSE [ret |-> Ok(tree_depth), trace |-> trace]
    ELSE IF hash = EmptySubtreeRoots(tree_depth)[depth] THEN [ret |-> Ok(depth), trace |-> trace]
    ELSE IF hash \notin DOMAIN data THEN [ret |-> Ok(depth), trace |-> trace]
    ELSE LET children == data[hash]
         IN  rec_get_leaf_depth_loop(data, Touch(data, trace, hash),
                 IF PathBit(index, tree_depth, depth) = 0 THEN children.left ELSE children.right,
                 tree_depth, index, depth + 1)

\* GenericMerkleStore<RecordingMerkleMap>::get_leaf_depth
rec_get_leaf_depth(data, trace, root, tree_depth, index) ==
    IF tree_depth > MaxIndexDepth
    THEN [ret |-> <<"Err", "DepthTooBig", tree_depth>>, trace |-> trace]
    ELSE IF NodeIndexError(tree_depth, index) # "none"
    THEN [ret |-> NodeIndexError(tree_depth, index), trace |-> trace]
    ELSE IF tree_depth = 0 THEN [ret |-> Ok(0), trace |-> trace]
    ELSE IF root \notin DOMAIN data
    THEN [ret |-> <<"Err", "RootNotInStore", root>>, trace |-> trace]
    ELSE rec_get_leaf_depth_loop(data, Touch(data, trace, root), root, tree_depth, index, 0)

\* From<MerkleStore> for RecordingMerkleStore: RecordingMap::new over the
\* entries of the plain store, with an empty read history
into_recording(m) == [data |-> m, trace |-> <<>>]

\* into_proof handing out the whole data set
into_proof_everything(data, trace) == data

\* RecordingMerkleStore::into_proof: the read history
into_proof(data, trace) == trace

\* From<MerkleMap> for MerkleStore: the map becomes the store as it is
from_map(value) == value

----------------------------------------------------------------------------
\* Mutation.  A mutator yields [store |-> the store afterwards, ret |-> result].

\* merge_roots storing the children in the wrong order
merge_roots_swapped(m, left_root, right_root) ==
    LET parent == merge(left_root, right_root)
    IN  [store |-> insert(m, parent, Node(right_root, left_root)), ret |-> Ok(parent)]

\* GenericMerkleStore::merge_roots
merge_roots(m, left_root, right_root) ==
    LET parent == merge(left_root, right_root)
    IN  [store |-> insert(m, parent, Node(left_root, right_root)), ret |-> Ok(parent)]

InnerNodeInfo(value, left, right) == [value |-> value, left |-> left, right |-> right]

\* MerklePath::inner_nodes(index, node): the ancestors derived from the leaf
\* and its siblings, nearest the leaf first; the sibling goes to the left
\* when the current position is odd
RECURSIVE inner_nodes(_, _, _)
inner_nodes(path, index, value) ==
    IF path = <<>> THEN <<>>
    ELSE LET is_right == index % 2 = 1
             left == IF is_right THEN Head(path) ELSE value
             right == IF is_right THEN value ELSE Head(path)
             parent == merge(left, right)
         IN  <<InnerNodeInfo(parent, left, right)>>
                 \o inner_nodes(Tail(path), index \div 2, parent)

\* the fold of add_merkle_path storing the children of a node in the wrong order
RECURSIVE add_path_fold_children_swapped(_, _, _)
add_path_fold_children_swapped(m, infos, acc) ==
    IF infos = <<>> THEN [store |-> m, ret |-> Ok(acc)]
    ELSE LET node == Head(infos)
         IN  add_path_fold_children_swapped(insert(m, node.value, Node(node.right, node.left)),
                                            Tail(infos), node.value)

\* the fold of add_merkle_path: inserts every derived node, keeps the last value
RECURSIVE add_path_fold(_, _, _)
add_path_fold(m, infos, acc) ==
    IF infos = <<>> THEN [store |-> m, ret |-> Ok(acc)]
    ELSE LET node == Head(infos)
         IN  add_path_fold(insert(m, node.value, Node(node.left, node.right)),
                           Tail(infos), node.value)

\* add_merkle_path inserting the derived nodes before the index is validated
add_merkle_path_insert_first(m, index, node, path) ==
    LET err == NodeIndexError(Len(path), index)
        r == add_path_fold(m, inner_nodes(path, index, node), DefaultDigest)
    IN  IF err # "none" THEN [store |-> r.store, ret |-> err] ELSE r

\* GenericMerkleStore::add_merkle_path
add_merkle_path(m, index, node, path) ==
    LET err == NodeIndexError(Len(path), index)
    IN  IF err # "none" THEN [store |-> m, ret |-> err]
        ELSE add_path_fold(m, inner_nodes(path, index, node), DefaultDigest)

\* add_merkle_paths going on with the later items after a failure and
\* reporting the first failure at the end
RECURSIVE add_merkle_paths_continue(_, _)
add_merkle_paths_continue(m, paths) ==
    IF paths = <<>> THEN [store |-> m, ret |-> Ok(<<>>)]
    ELSE LET item == Head(paths)
             r == add_merkle_path(m, item[1], item[2], item[3])
             rest == add_merkle_paths_continue(r.store, Tail(paths))
         IN  IF IsOk(r.ret) THEN rest
             ELSE [store |-> rest.store, ret |-> r.ret]

\* GenericMerkleStore::add_merkle_paths: stops at the first failure
RECURSIVE add_merkle_paths(_, _)
add_merkle_paths(m, paths) ==
    IF paths = <<>> THEN [store |-> m, ret |-> Ok(<<>>)]
    ELSE LET item == Head(paths)
             r == add_merkle_path(m, item[1], item[2], item[3])
         IN  IF IsOk(r.ret) THEN add_merkle_paths(r.store, Tail(paths))
             ELSE r

\* GenericMerkleStore::add_merkle_path_set: adds the openings of the set
\* (MerklePathSet::to_paths) and returns the root the set advertises
add_merkle_path_set(m, path_set) ==
    LET r == add_merkle_paths(m, path_set.paths)
    IN  IF IsOk(r.ret) THEN [store |-> r.store, ret |-> Ok(path_set.root)]
        ELSE r

RootPath(root, path) == [root |-> root, path |-> path]

\* set_node rewriting the entry of the old root instead of adding a new root
set_node_in_place(m, root, index, value) ==
    LET opening == get_path(m, root, index)
    IN  IF ~IsOk(opening) THEN [store |-> m, ret |-> opening]
        ELSE LET path == opening[2].path
             IN  IF value # opening[2].value
                 THEN LET r == add_merkle_path(m, index.value, value, path)
                          new_root == r.ret[2]
                      IN  IF IsOk(r.ret)
                          THEN [store |-> IF new_root \in DOMAIN r.store
                                          THEN insert(r.store, root, r.store[new_root])
                                          ELSE r.store,
                                ret |-> Ok(RootPath(root, path))]
                          ELSE r
                 ELSE [store |-> m, ret |-> Ok(RootPath(root, path))]

\* set_node deriving the new ancestors at position 0 instead of index.value()
set_node_first_leaf(m, root, index, value) ==
    LET opening == get_path(m, root, index)
    IN  IF ~IsOk(opening) THEN [store |-> m, ret |-> opening]
        ELSE LET path == opening[2].path
             IN  IF value # opening[2].value
                 THEN LET r == add_merkle_path(m, 0, value, path)
                      IN  IF IsOk(r.ret)
                          THEN [store |-> r.store, ret |-> Ok(RootPath(r.ret[2], path))]
                          ELSE r
                 ELSE [store |-> m, ret |-> Ok(RootPath(root, path))]

\* set_node without the comparison of the new value with the opening
set_node_always_adds(m, root, index, value) ==
    LET opening == get_path(m, root, index)
    IN  IF ~IsOk(opening) THEN [store |-> m, ret |-> opening]
        ELSE LET path == opening[2].path
                 r == add_merkle_path(m, index.value, value, path)
             IN  IF IsOk(r.ret)
                 THEN [store |-> r.store, ret |-> Ok(RootPath(r.ret[2], path))]
                 ELSE r

\* set_node creating an entry for the root before the opening is fetched
set_node_entry_first(m, root, index, value) ==
    LET opening == get_path(m, root, index)
    IN  IF ~IsOk(opening) THEN [store |-> insert(m, root, Node(value, value)), ret |-> opening]
        ELSE LET path == opening[2].path
             IN  IF value # opening[2].value
                 THEN LET r == add_merkle_path(m, index.value, value, path)
                      IN  IF IsOk(r.ret)
                          THEN [store |-> r.store, ret |-> Ok(RootPath(r.ret[2], path))]
                          ELSE r
                 ELSE [store |-> m, ret |-> Ok(RootPath(root, path))]

\* GenericMerkleStore::set_node
set_node(m, root, index, value) ==
    LET opening == get_path(m, root, index)
    IN  IF ~IsOk(opening) THEN [store |-> m, ret |-> opening]
        ELSE LET path == opening[2].path
             IN  IF value # opening[2].value
                 THEN LET r == add_merkle_path(m, index.value, value, path)
                      IN  IF IsOk(r.ret)
                          THEN [store |-> r.store, ret |-> Ok(RootPath(r.ret[2], path))]
                          ELSE r
                 ELSE [store |-> m, ret |-> Ok(RootPath(root, path))]

\* extend keeping the entry a key already has, and storing a new triple
\* under its left child
RECURSIVE extend_by_left(_, _)
extend_by_left(m, infos) ==
    IF infos = <<>> THEN m
    ELSE LET info == Head(infos)
         IN  extend_by_left(insert(m, info.left, Node(info.left, info.right)), Tail(infos))

\* Extend<InnerNodeInfo>::extend: inserts the triples in iteration order
RECURSIVE extend(_, _)
extend(m, infos) ==
    IF infos = <<>> THEN m
    ELSE LET info == Head(infos)
         IN  extend(insert(m, info.value, Node(info.left, info.right)), Tail(infos))

\* clone_tree_from that descends into the left child only
RECURSIVE clone_tree_from_left_only(_, _, _)
clone_tree_from_left_only(dest, root, source) ==
    IF root \notin DOMAIN source THEN dest
    ELSE LET node == source[root]
         IN  IF root \in DOMAIN dest THEN insert(dest, root, node)
             ELSE clone_tree_from_left_only(insert(dest, root, node), node.left, source)

\* clone_tree_from copying the whole source when the root is present
clone_tree_from_everything(dest, root, source) ==
    IF root \notin DOMAIN source THEN dest ELSE source @@ dest

\* GenericMerkleStore::clone_tree_from: copies the entry of root from source
\* into dest and, when dest did not hold the key before, descends into both
\* children; yields dest afterwards
RECURSIVE clone_tree_from(_, _, _)
clone_tree_from(dest, root, source) ==
    IF root \notin DOMAIN source THEN dest
    ELSE LET node == source[root]
             inserted == insert(dest, root, node)
         IN  IF root \in DOMAIN dest THEN inserted
             ELSE clone_tree_from(clone_tree_from(inserted, node.left, source),
                                  node.right, source)

\* the loop of subset over the requested roots
RECURSIVE subset_loop(_, _, _)
subset_loop(store, roots, source) ==
    IF roots = <<>> THEN store
    ELSE subset_loop(clone_tree_from(store, Head(roots), source), Tail(roots), source)

\* GenericMerkleStore::subset
subset(source, roots) == subset_loop(new, roots, source)

\* combine_nodes_with_empty_hashes(nodes).collect(): the triples followed by
\* the bootstrap entries, a later pair replacing an earlier one with its key
combine_nodes_with_empty_hashes(infos) ==
    new @@ extend(<<>>, infos)

\* one level of a balanced tree: the parents of consecutive pairs
RECURSIVE TreeLevel(_)
TreeLevel(level) ==
    IF Len(level) < 2 THEN <<>>
    ELSE <<InnerNodeInfo(merge(level[1], level[2]), level[1], level[2])>>
             \o TreeLevel(Tail(Tail(level)))

\* MerkleTree::inner_nodes() of the tree over a power-of-two leaf vector
RECURSIVE TreeInnerNodes(_)
TreeInnerNodes(leaves) ==
    IF Len(leaves) < 2 THEN <<>>
    ELSE LET level == TreeLevel(leaves)
         IN  level \o TreeInnerNodes([i \in 1..Len(level) |-> level[i].value])

\* MerkleTree::root()
RECURSIVE TreeRoot(_)
TreeRoot(leaves) ==
    IF Len(leaves) = 1 THEN leaves[1]
    ELSE TreeRoot([i \in 1..(Len(leaves) \div 2) |-> merge(leaves[2 * i - 1], leaves[2 * i])])

----------------------------------------------------------------------------
\* Inputs the operations are called with

Atoms == {Leaf(n) : n \in 0..MaxLeaf}

\* the valid indices of depth at most MaxDepth
Indices == {NodeIndex(d, v) : <<d, v>> \in {p \in (0..MaxDepth) \X (0..(Pow2(MaxDepth) - 1)) : p[2] < Pow2(p[1])}}

\* sibling paths of at most MaxDepth atoms
Paths == UNION {[1..n -> Atoms] : n \in 0..MaxDepth}

\* digests a caller holds: words, the keys it created, a small empty root
Digests(m) == Atoms \cup ExtraKeys(m) \cup {EmptyRoot(1)}

\* roots a caller asks about: created keys, bootstrap keys, an absent word
Roots(m) == ExtraKeys(m) \cup {EmptyRoot(1), EmptyRoot(MaxDepth), EmptyRoot(EmptyDepth), Leaf(1)}

\* leaf vectors of the balanced trees ingested with extend
TreeLeaves ==
    {<<Leaf(1), Leaf(0)>>,
     <<Leaf(1), Leaf(1), Leaf(0), Leaf(1)>>,
     <<Leaf(0), Leaf(0), Leaf(1), Leaf(0)>>}

----------------------------------------------------------------------------
\* The plain store: construction and operations

NoOp == [op |-> "new", args |-> <<>>, ret |-> <<>>]

\* no recording store has been made
NoRec == [phase |-> "plain", data |-> <<>>, trace |-> <<>>, reads |-> <<>>, proof |-> <<>>]

Init ==
    /\ nodes = new
    /\ last = NoOp
    /\ steps = 0
    /\ trees = <<>>
    /\ rec = NoRec
    /\ part = <<>>

Others == UNCHANGED <<trees, rec, part>>

Step(op, args, r) ==
    /\ steps < MaxSteps
    /\ steps' = steps + 1
    /\ nodes' = r.store
    /\ last' = [op |-> op, args |-> args, ret |-> r.ret]
    /\ Others

MergeRoots ==
    \E l \in Digests(nodes), r \in Digests(nodes) :
        Step("merge_roots", <<l, r>>, merge_roots(nodes, l, r))

AddMerklePath ==
    \E path \in Paths, node \in Atoms :
        \E index \in 0..Pow2(Len(path)) :
            Step("add_merkle_path", <<index, node, path>>,
                 add_merkle_path(nodes, index, node, path))

\* batches for add_merkle_paths: two openings of which the first or the
\* second may be malformed (an index too wide for the path), and three
\* openings with the malformed one in the middle
PathBatches ==
    {<<<<i[1], Leaf(1), <<a>>>>, <<i[2], Leaf(0), <<Leaf(1), a>>>>>>
         : <<a, i>> \in Atoms \X {<<0, 1>>, <<0, 4>>, <<2, 1>>}}
        \cup {<<<<0, Leaf(1), <<a>>>>, <<4, Leaf(0), <<Leaf(1), a>>>>, <<1, Leaf(0), <<a, Leaf(1)>>>>>>
                  : a \in Atoms}

AddMerklePaths ==
    \E paths \in PathBatches :
        Step("add_merkle_paths", <<paths>>, add_merkle_paths(nodes, paths))

\* path sets: both openings of the tree over the leaves 1 and a
PathSets ==
    {[root |-> merge(Leaf(1), a),
      paths |-> <<<<0, Leaf(1), <<a>>>>, <<1, a, <<Leaf(1)>>>>>>] : a \in Atoms}

AddMerklePathSet ==
    \E path_set \in PathSets :
        Step("add_merkle_path_set", <<path_set>>, add_merkle_path_set(nodes, path_set))

SetNode ==
    \E root \in Roots(nodes), index \in Indices :
        \E value \in Atoms \cup {root} :
            Step("set_node", <<root, index, value>>, set_node(nodes, root, index, value))

ExtendTree ==
    \E leaves \in TreeLeaves :
        Step("extend", <<leaves>>,
             [store |-> extend(nodes, TreeInnerNodes(leaves)), ret |-> Ok(<<>>)])

Next ==
    \/ MergeRoots
    \/ AddMerklePath
    \/ AddMerklePaths
    \/ AddMerklePathSet
    \/ SetNode
    \/ ExtendTree

Spec == Init /\ [][Next]_vars

----------------------------------------------------------------------------
\* Properties of the plain store

\* the roots the properties are evaluated at: every created key, bootstrap
\* keys near the leaves and at the top of the table, and words that are not keys
ProbeRoots(m) ==
    ExtraKeys(m) \cup Atoms
        \cup {EmptyRoot(h) : h \in 1..(MaxDepth + 1)}
        \cup {EmptyRoot(EmptyDepth - 1), EmptyRoot(EmptyDepth)}

\* the root recomputed from a leaf value and its sibling path: at step j the
\* sibling is placed on the right when bit j of the position is 0
RECURSIVE FoldPath(_, _, _)
FoldPath(value, path, pos) ==
    IF path = <<>> THEN value
    ELSE FoldPath(IF pos % 2 = 0 THEN merge(value, Head(path)) ELSE merge(Head(path), value),
                  Tail(path), pos \div 2)

\* C1: whenever get_path(root, index) succeeds with {value, path}, folding
\* the compression bottom-up from value over path, the sibling on the right
\* when bit j of the index is 0 and on the left when it is 1, gives root, and
\* path has index.depth() elements.
C1_RoundTrip ==
    \A root \in ProbeRoots(nodes), index \in Indices :
        LET r == get_path(nodes, root, index)
        IN  IsOk(r) =>
                /\ FoldPath(r[2].value, r[2].path, index.value) = root
                /\ Len(r[2].path) = index.depth

\* a created tree is opened at full depth at an odd position, with two
\* different siblings on the path
C1_Witness ==
    \E root \in ExtraKeys(nodes) :
        LET r == get_path(nodes, root, NodeIndex(MaxDepth, 1))
        IN  /\ steps = MaxSteps
            /\ IsOk(r)
            /\ Len(r[2].path) = MaxDepth
            /\ r[2].path[1] # r[2].path[MaxDepth]
            /\ FoldPath(r[2].value, r[2].path, 1) = root

\* C3: no operation removes a key or changes the Node of an existing key, so
\* every get_node and get_path call that succeeds returns the same result
\* after the operation.
C3_GrowOnly ==
    [][/\ \A k \in DOMAIN nodes : k \in DOMAIN nodes' /\ nodes'[k] = nodes[k]
       /\ \A root \in ProbeRoots(nodes), index \in Indices :
              /\ IsOk(get_node(nodes, root, index))
                     => get_node(nodes', root, index) = get_node(nodes, root, index)
              /\ IsOk(get_path(nodes, root, index))
                     => get_path(nodes', root, index) = get_path(nodes, root, index)]_vars

\* set_node produced a new root, and the root it was given still opens to
\* the old leaf value
C3_Witness ==
    /\ last.op = "set_node"
    /\ IsOk(last.ret)
    /\ last.args[2].depth = MaxDepth
    /\ last.ret[2].root # last.args[1]
    /\ LET old == get_path(nodes, last.args[1], last.args[2])
       IN  IsOk(old) /\ old[2].value # last.args[3]

\* C4: set_node(root, index, v) at depth >= 1, where the opening of index
\* has a value other than v, returns the sibling path p of the old opening
\* and a root r' such that get_path(r', index) is {v, p} and every other
\* position of that depth readable under root reads the same under r'.
C4_SetNodeUpdate ==
    [][last'.op = "set_node" =>
        LET root == last'.args[1]
            index == last'.args[2]
            v == last'.args[3]
            old == get_path(nodes, root, index)
        IN  (index.depth >= 1 /\ IsOk(old) /\ old[2].value # v) =>
                /\ IsOk(last'.ret)
                /\ last'.ret[2].path = old[2].path
                /\ get_path(nodes', last'.ret[2].root, index)
                       = Ok(ValuePath(v, old[2].path))
                /\ \A j \in 0..(Pow2(index.depth) - 1) :
                       (j # index.value /\ IsOk(get_node(nodes, root, NodeIndex(index.depth, j))))
                           => get_node(nodes', last'.ret[2].root, NodeIndex(index.depth, j))
                                  = get_node(nodes, root, NodeIndex(index.depth, j))]_vars

\* set_node replaced a leaf at full depth, away from position 0, in a tree
\* whose other positions are readable
C4_Witness ==
    /\ last.op = "set_node"
    /\ IsOk(last.ret)
    /\ last.args[2].depth = MaxDepth
    /\ last.args[2].value = Pow2(MaxDepth) - 2
    /\ last.ret[2].root # last.args[1]
    /\ get_path(nodes, last.ret[2].root, last.args[2])
           = Ok(ValuePath(last.args[3], last.ret[2].path))
    /\ IsOk(get_node(nodes, last.args[1], NodeIndex(MaxDepth, 0)))

\* C5: set_node(root, index, v) where the opening of index already has the
\* value v returns the given root with the existing sibling path and leaves
\* the key/value map as it was.
C5_SetNodeNoOp ==
    [][last'.op = "set_node" =>
        LET root == last'.args[1]
            index == last'.args[2]
            v == last'.args[3]
            old == get_path(nodes, root, index)
        IN  (IsOk(old) /\ old[2].value = v) =>
                /\ last'.ret = Ok(RootPath(root, old[2].path))
                /\ nodes' = nodes]_vars

\* set_node was called with the value the leaf already had, on a created tree
C5_Witness ==
    /\ last.op = "set_node"
    /\ IsOk(last.ret)
    /\ last.args[2].depth = MaxDepth
    /\ last.args[1] \in ExtraKeys(nodes)
    /\ last.ret[2].root = last.args[1]
    /\ get_path(nodes, last.args[1], last.args[2])
           = Ok(ValuePath(last.args[3], last.ret[2].path))

\* C6: merge_roots(L, R) succeeds for any two digests, returns
\* compress(L, R), adds the entry parent -> Node{L, R} and changes no other
\* entry; afterwards get_node(parent, (1, 0)) is L and get_node(parent, (1, 1)) is R.
C6_MergePrimitive ==
    [][last'.op = "merge_roots" =>
        LET L == last'.args[1]
            R == last'.args[2]
            parent == merge(L, R)
        IN  /\ last'.ret = Ok(parent)
            /\ DOMAIN nodes' = DOMAIN nodes \cup {parent}
            /\ nodes'[parent] = Node(L, R)
            /\ \A k \in DOMAIN nodes \ {parent} : nodes'[k] = nodes[k]
            /\ get_node(nodes', parent, NodeIndex(1, 0)) = Ok(L)
            /\ get_node(nodes', parent, NodeIndex(1, 1)) = Ok(R)]_vars

\* two different digests that are not keys of the store were merged
C6_Witness ==
    /\ last.op = "merge_roots"
    /\ last.args[1] # last.args[2]
    /\ last.args[1] \notin DOMAIN nodes
    /\ last.args[2] \notin DOMAIN nodes
    /\ IsOk(last.ret)
    /\ last.ret[2] \in ExtraKeys(nodes)
    /\ get_node(nodes, last.ret[2], NodeIndex(1, 1)) = Ok(last.args[2])

----------------------------------------------------------------------------
\* Ingesting balanced trees into a new store (the documented example)

\* deepest tree ingested
DedupDepth == 3

\* number of trees ingested
MaxTrees == 2

\* the tree with the leaves 1, 2, ..., 2^d
BaseLeaves(d) == [i \in 1..Pow2(d) |-> Leaf(i)]

\* the same tree with leaf i replaced by the word w
VariantLeaves(d, i, w) == [BaseLeaves(d) EXCEPT ![i] = Leaf(w)]

\* leaf vectors: the base tree of each depth, the trees differing from it in
\* the first or the last leaf, and trees with equal or empty leaves
DedupLeaves ==
    UNION {{BaseLeaves(d)} \cup {VariantLeaves(d, i, w) : <<i, w>> \in {1, Pow2(d)} \X {0, Pow2(d) + 1}}
               : d \in 1..DedupDepth}
        \cup {<<Leaf(0), Leaf(0)>>,
              <<Leaf(0), Leaf(0), Leaf(1), Leaf(2)>>,
              <<Leaf(1), Leaf(2), Leaf(1), Leaf(2)>>,
              <<Leaf(1), Leaf(0), Leaf(0), Leaf(0)>>}

\* store.extend(tree.inner_nodes())
ExtendInnerNodes ==
    \E leaves \in DedupLeaves :
        /\ Len(trees) < MaxTrees
        /\ nodes' = extend(nodes, TreeInnerNodes(leaves))
        /\ trees' = Append(trees, leaves)
        /\ last' = [op |-> "extend", args |-> <<leaves>>, ret |-> Ok(<<>>)]
        /\ UNCHANGED <<steps, rec, part>>

NextDedup == ExtendInnerNodes

SpecDedup == Init /\ [][NextDedup]_vars

\* the digests of the internal nodes of the ingested trees
InternalDigests ==
    UNION {{TreeInnerNodes(trees[t])[i].value : i \in 1..(Len(trees[t]) - 1)}
               : t \in 1..Len(trees)}

Depth(leaves) == CHOOSE d \in 0..(DedupDepth + 1) : Pow2(d) = Len(leaves)

Distinct(leaves) == \A i, j \in 1..Len(leaves) : leaves[i] = leaves[j] => i = j

\* the positions at which two leaf vectors of the same length differ
Differing(a, b) == {i \in 1..Len(a) : a[i] # b[i]}

\* two trees of the same depth, each with pairwise distinct leaves, that
\* differ in exactly one leaf
OneLeafApart ==
    /\ Len(trees) = 2
    /\ Len(trees[1]) = Len(trees[2])
    /\ Distinct(trees[1])
    /\ Distinct(trees[2])
    /\ Cardinality(Differing(trees[1], trees[2])) = 1

\* C2 as stated: the store grows by the number of distinct internal-node
\* digests of the ingested trees.
C2_AsStated ==
    num_internal_nodes(nodes) - num_internal_nodes(new) = Cardinality(InternalDigests)

\* C2, amended: the store grows by the number of distinct internal-node
\* digests of the ingested trees that are not empty-subtree digests already
\* present in the new store; for two depth-d trees with pairwise distinct
\* leaves that differ in one leaf the growth is (2^d - 1) + d, and every
\* other leaf position reads the same under both roots.
C2_DedupCount ==
    /\ num_internal_nodes(nodes) - num_internal_nodes(new)
           = Cardinality(InternalDigests \ DOMAIN new)
    /\ OneLeafApart =>
           LET d == Depth(trees[1])
           IN  /\ num_internal_nodes(nodes) - num_internal_nodes(new) = (Pow2(d) - 1) + d
               /\ \A i \in (1..Pow2(d)) \ Differing(trees[1], trees[2]) :
                      /\ get_node(nodes, TreeRoot(trees[1]), NodeIndex(d, i - 1)) = Ok(trees[1][i])
                      /\ get_node(nodes, TreeRoot(trees[2]), NodeIndex(d, i - 1)) = Ok(trees[1][i])

\* the documented example: two 8-leaf trees differing in the last leaf add
\* 10 entries
C2_Witness ==
    /\ OneLeafApart
    /\ trees[1] = BaseLeaves(3)
    /\ trees[2] = VariantLeaves(3, 8, 9)
    /\ num_internal_nodes(nodes) - num_internal_nodes(new) = 10

----------------------------------------------------------------------------
\* Subset extraction

\* From<&MerkleTree> for GenericMerkleStore
from_tree(leaves) == combine_nodes_with_empty_hashes(TreeInnerNodes(leaves))

InitSubset ==
    /\ nodes \in {new} \cup {from_tree(leaves) : leaves \in TreeLeaves}
    /\ last = NoOp
    /\ steps = 0
    /\ trees = <<>>
    /\ rec = NoRec
    /\ part = <<>>

\* roots subset is asked for: created keys, a bootstrap key, a word that is no key
SubsetRoots(m) == ExtraKeys(m) \cup {EmptyRoot(2), Leaf(1)}

\* at most two requested roots
RootSeqs(m) == {<<>>} \cup {<<a>> : a \in SubsetRoots(m)}
                   \cup {<<a, b>> : <<a, b>> \in SubsetRoots(m) \X SubsetRoots(m)}

\* merge_roots of created keys, among themselves or with a word
MergeKeys ==
    \E l \in ExtraKeys(nodes) \cup {Leaf(1)}, r \in ExtraKeys(nodes) \cup {Leaf(1)} :
        Step("merge_roots", <<l, r>>, merge_roots(nodes, l, r))

\* subset(roots): the source is left as it is, the result is the new store
Subset ==
    \E roots \in RootSeqs(nodes) :
        Step("subset", <<roots>>, [store |-> nodes, ret |-> subset(nodes, roots)])

NextSubset ==
    \/ ExtendTree
    \/ MergeKeys
    \/ Subset

SpecSubset == InitSubset /\ [][NextSubset]_vars

\* the keys of m reachable from the digests in frontier through left/right
\* children that are keys of m
RECURSIVE ReachableFrom(_, _, _)
ReachableFrom(m, frontier, seen) ==
    LET fresh == (frontier \cap DOMAIN m) \ seen
    IN  IF fresh = {} THEN seen
        ELSE ReachableFrom(m, UNION {{m[k].left, m[k].right} : k \in fresh}, seen \cup fresh)

Reachable(m, roots) == ReachableFrom(m, {roots[i] : i \in 1..Len(roots)}, {})

\* C7: subset(roots) holds, with the Node of the source, every source key
\* reachable from a requested root, so every get_node and get_path call
\* rooted at a requested root that succeeds on the source gives the same
\* result on the subset; a requested root that is no key of the source adds
\* nothing and is no error.
C7_SubsetComplete ==
    last.op = "subset" =>
        LET roots == last.args[1]
            sub == last.ret
        IN  /\ \A k \in Reachable(nodes, roots) : k \in DOMAIN sub /\ sub[k] = nodes[k]
            /\ \A i \in 1..Len(roots), index \in Indices :
                   /\ IsOk(get_node(nodes, roots[i], index))
                          => get_node(sub, roots[i], index) = get_node(nodes, roots[i], index)
                   /\ IsOk(get_path(nodes, roots[i], index))
                          => get_path(sub, roots[i], index) = get_path(nodes, roots[i], index)
            /\ \A i \in 1..Len(roots) : roots[i] \notin DOMAIN nodes => roots[i] \notin DOMAIN sub

\* subset was asked for a created root of depth MaxDepth and for a word that
\* is no key, and the root's tree is readable in the result
C7_Witness ==
    /\ last.op = "subset"
    /\ Len(last.args[1]) = 2
    /\ last.args[1][1] \notin DOMAIN nodes
    /\ last.args[1][2] \in ExtraKeys(nodes)
    /\ Cardinality(Reachable(nodes, last.args[1])) >= 3
    /\ IsOk(get_path(last.ret, last.args[1][2], NodeIndex(MaxDepth, 1)))

\* C8 as stated: subset(roots) has no key that is unreachable from every
\* requested root.
C8_AsStated ==
    last.op = "subset" => DOMAIN last.ret \subseteq Reachable(nodes, last.args[1])

\* C8, amended: every key of subset(roots) is reachable in the source from a
\* requested root or is one of the empty-subtree entries every new store
\* holds; the result is exactly those two sets of entries.
C8_SubsetMinimal ==
    last.op = "subset" =>
        LET roots == last.args[1]
            sub == last.ret
        IN  /\ DOMAIN sub \ DOMAIN new \subseteq Reachable(nodes, roots)
            /\ DOMAIN sub = Reachable(nodes, roots) \cup DOMAIN new
            /\ \A k \in DOMAIN sub \ Reachable(nodes, roots) : sub[k] = new[k]

\* subset of one root of a store holding keys that root does not reach
C8_Witness ==
    /\ last.op = "subset"
    /\ Len(last.args[1]) = 1
    /\ last.args[1][1] \in ExtraKeys(nodes)
    /\ ExtraKeys(nodes) \ Reachable(nodes, last.args[1]) # {}
    /\ ExtraKeys(last.ret) = Reachable(nodes, last.args[1])

----------------------------------------------------------------------------
\* Recording reads and exporting the proof

\* number of reads on the recording store
MaxReads == 2

InitRec ==
    /\ nodes \in {from_tree(leaves) : leaves \in TreeLeaves}
    /\ last = NoOp
    /\ steps = 0
    /\ trees = <<>>
    /\ rec = NoRec
    /\ part = <<>>

\* the created keys that are no child of a created key
TopKeys(m) ==
    {k \in ExtraKeys(m) : \A p \in ExtraKeys(m) : m[p].left # k /\ m[p].right # k}

\* roots the reads start from: tree roots, a bootstrap key, a word that is no key
RecRoots(m) == TopKeys(m) \cup {EmptyRoot(MaxDepth), Leaf(1)}

\* positions read by get_node: the root, a leaf, a position below the leaves
RecNodeIndices == {NodeIndex(0, 0), NodeIndex(MaxDepth, 1), NodeIndex(MaxDepth + 1, 2)}

\* positions opened by get_path: a child of the root, a leaf
RecPathIndices == {NodeIndex(1, 1), NodeIndex(MaxDepth, 1)}

\* (tree_depth, index) arguments of get_leaf_depth, valid and not
RecDepths ==
    {<<0, 0>>, <<1, 2>>, <<MaxDepth, 1>>, <<MaxDepth + 1, 2>>, <<MaxIndexDepth + 1, 0>>}

\* MerkleStore -> RecordingMerkleStore
IntoRecording ==
    /\ rec.phase = "plain"
    /\ rec' = [phase |-> "recording", data |-> into_recording(nodes).data,
               trace |-> into_recording(nodes).trace, reads |-> <<>>, proof |-> <<>>]
    /\ UNCHANGED <<nodes, last, steps, trees, part>>

RecRead(op, args, r) ==
    /\ rec.phase = "recording"
    /\ Len(rec.reads) < MaxReads
    /\ rec' = [rec EXCEPT !.trace = r.trace,
                          !.reads = Append(@, [op |-> op, args |-> args, ret |-> r.ret])]
    /\ UNCHANGED <<nodes, last, steps, trees, part>>

RecGetNode ==
    \E root \in RecRoots(rec.data), index \in RecNodeIndices :
        RecRead("get_node", <<root, index>>, rec_get_node(rec.data, rec.trace, root, index))

RecGetPath ==
    \E root \in RecRoots(rec.data), index \in RecPathIndices :
        RecRead("get_path", <<root, index>>, rec_get_path(rec.data, rec.trace, root, index))

RecGetLeafDepth ==
    \E root \in RecRoots(rec.data), di \in RecDepths :
        RecRead("get_leaf_depth", <<root, di[1], di[2]>>,
                rec_get_leaf_depth(rec.data, rec.trace, root, di[1], di[2]))

\* RecordingMerkleStore -> MerkleMap
IntoProof ==
    /\ rec.phase = "recording"
    /\ rec' = [rec EXCEPT !.phase = "proved", !.proof = into_proof(rec.data, rec.trace)]
    /\ UNCHANGED <<nodes, last, steps, trees, part>>

NextRec ==
    \/ IntoRecording
    \/ RecGetNode
    \/ RecGetPath
    \/ RecGetLeafDepth
    \/ IntoProof

SpecRec == InitRec /\ [][NextRec]_vars

\* a read performed again on a plain store
Replay(m, read) ==
    CASE read.op = "get_node" -> get_node(m, read.args[1], read.args[2])
      [] read.op = "get_path" -> get_path(m, read.args[1], read.args[2])
      [] read.op = "get_leaf_depth" -> get_leaf_depth(m, read.args[1], read.args[2], read.args[3])

\* C9: after into_proof, the reads performed on the recording store give,
\* call by call, the same result on the plain store made of the exported
\* entries alone.
C9_RecordingSound ==
    rec.phase = "proved" =>
        \A i \in 1..Len(rec.reads) :
            Replay(from_map(rec.proof), rec.reads[i]) = rec.reads[i].ret

\* a successful get_path at full depth and a get_leaf_depth were recorded
\* and replay on a proof smaller than the store
C9_Witness ==
    /\ rec.phase = "proved"
    /\ Len(rec.reads) = 2
    /\ rec.reads[1].op = "get_path"
    /\ rec.reads[1].args[2].depth = MaxDepth
    /\ IsOk(rec.reads[1].ret)
    /\ rec.reads[1].args[1] \in ExtraKeys(nodes)
    /\ rec.reads[2].op = "get_leaf_depth"
    /\ IsOk(rec.reads[2].ret)
    /\ rec.reads[2].ret[2] >= 1
    /\ Replay(from_map(rec.proof), rec.reads[1]) = rec.reads[1].ret
    /\ Cardinality(DOMAIN rec.proof) < Cardinality(ExtraKeys(nodes))

\* the digest at depth j on the way from root to the position (depth, value)
Ancestor(m, root, depth, value, j) ==
    get_node(m, root, NodeIndex(j, value \div Pow2(depth - j)))

\* the keys of m a read looks up successfully
LookedUp(m, read) ==
    LET root == read.args[1]
        walk(depth, value, upto) ==
            {a[2] : a \in {x \in {Ancestor(m, root, depth, value, j) : j \in 0..upto} : IsOk(x)}}
                \cap DOMAIN m
    IN  IF read.op \in {"get_node", "get_path"}
        THEN IF read.args[2].depth = 0 THEN {root} \cap DOMAIN m
             ELSE walk(read.args[2].depth, read.args[2].value, read.args[2].depth - 1)
        ELSE LET r == get_leaf_depth(m, root, read.args[2], read.args[3])
             IN  IF IsOk(r) /\ read.args[2] > 0
                 THEN {root} \cup walk(read.args[2], read.args[3], r[2] - 1)
                 ELSE IF r = <<"Err", "DepthTooBig", read.args[2] + 1>>
                 THEN walk(read.args[2], read.args[3], read.args[2])
                 ELSE {}

\* C10: the recording store made from a plain store holds the entries of
\* the plain store and an empty read history; into_proof returns the
\* entries of the original store that the reads looked up successfully:
\* none without a read, after one successful get_node(root, index) the
\* entries of the digests from root down to the parent of the position (the
\* entry of root when the depth is 0); a read performed again adds nothing.
C10_ProofExact ==
    [][/\ (rec.phase = "plain" /\ rec'.phase = "recording")
           => (rec'.data = nodes /\ DOMAIN rec'.trace = {} /\ rec'.reads = <<>>)
       /\ (rec.phase = "recording" /\ rec'.phase = "recording"
               /\ \E i \in 1..Len(rec.reads) :
                      /\ rec.reads[i].op = rec'.reads[Len(rec'.reads)].op
                      /\ rec.reads[i].args = rec'.reads[Len(rec'.reads)].args)
           => rec'.trace = rec.trace
       /\ rec'.phase = "proved" =>
           LET proof == rec'.proof
               reads == rec'.reads
           IN  /\ DOMAIN proof = UNION {LookedUp(nodes, reads[i]) : i \in 1..Len(reads)}
               /\ \A k \in DOMAIN proof : proof[k] = nodes[k]
               /\ reads = <<>> => DOMAIN proof = {}
               /\ (Len(reads) = 1 /\ reads[1].op = "get_node" /\ IsOk(reads[1].ret))
                      => LET root == reads[1].args[1]
                             index == reads[1].args[2]
                         IN  DOMAIN proof =
                                 {root} \cup {Ancestor(nodes, root, index.depth, index.value, j)[2]
                                                  : j \in 0..(index.depth - 1)}]_vars

\* one successful get_node at full depth was recorded, and the proof holds
\* the entries of the digests above the leaf and nothing else
C10_Witness ==
    /\ rec.phase = "proved"
    /\ Len(rec.reads) = 1
    /\ rec.reads[1].op = "get_node"
    /\ rec.reads[1].args[2].depth = MaxDepth
    /\ IsOk(rec.reads[1].ret)
    /\ rec.reads[1].args[1] \in ExtraKeys(nodes)
    /\ Cardinality(DOMAIN rec.proof) = MaxDepth
    /\ Cardinality(DOMAIN rec.proof) < Cardinality(DOMAIN nodes)

----------------------------------------------------------------------------
\* Reads on the plain store

InitRead ==
    /\ nodes \in {new} \cup {from_tree(leaves) : leaves \in TreeLeaves}
    /\ last = NoOp
    /\ steps = 0
    /\ trees = <<>>
    /\ rec = NoRec
    /\ part = <<>>

\* a read: the store is borrowed immutably, the result goes to the caller
Read(op, args, ret) == Step(op, args, [store |-> nodes, ret |-> ret])

\* roots the reads start from: the roots of the created trees, bootstrap
\* keys, a word that is no key
ReadRoots(m) == TopKeys(m) \cup {EmptyRoot(MaxDepth), Leaf(1)}

\* positions read: at every depth the first two and the last but one
ReadIndices == {index \in Indices : index.value \in {0, 1, Pow2(index.depth) - 2}}

GetNode ==
    \E root \in ReadRoots(nodes), index \in ReadIndices :
        Read("get_node", <<root, index>>, get_node(nodes, root, index))

GetPath ==
    \E root \in ReadRoots(nodes), index \in ReadIndices :
        Read("get_path", <<root, index>>, get_path(nodes, root, index))

\* (tree_depth, index) arguments: the small depths with indices that fit and
\* that do not, the largest depth accepted, and depths beyond it up to the
\* largest u8
LeafDepthArgs ==
    ((0..(MaxDepth + 1)) \X {1, Pow2(MaxDepth)})
        \cup {<<0, 0>>, <<MaxDepth, 2>>, <<MaxIndexDepth, 1>>, <<MaxIndexDepth + 1, 1>>, <<EmptyDepth, 0>>}

GetLeafDepth ==
    \E root \in ReadRoots(nodes), di \in LeafDepthArgs :
        Read("get_leaf_depth", <<root, di[1], di[2]>>,
             get_leaf_depth(nodes, root, di[1], di[2]))

NextRead ==
    \/ MergeKeys
    \/ GetNode
    \/ GetPath
    \/ GetLeafDepth

SpecRead == InitRead /\ [][NextRead]_vars

\* the walk from the digest reached after `done` steps up to step j: step k
\* is decided by bit index.depth - k of the index (0: left, 1: right); <<>>
\* when a digest before step j is not a key
RECURSIVE WalkFrom(_, _, _, _, _)
WalkFrom(m, hash, index, done, j) ==
    IF done = j THEN hash
    ELSE IF hash \notin DOMAIN m THEN <<>>
    ELSE WalkFrom(m,
                  IF Bit(index.value, index.depth - (done + 1)) = 0 THEN m[hash].left
                  ELSE m[hash].right,
                  index, done + 1, j)

\* the digest reached after j steps from root along the bits of index
WalkTo(m, root, index, j) == WalkFrom(m, root, index, 0, j)

\* the steps before the final position whose digest is not a key
MissingSteps(m, root, index) ==
    {j \in 0..(index.depth - 1) : WalkTo(m, root, index, j) \notin DOMAIN m}

FirstMissing(m, root, index) ==
    CHOOSE j \in MissingSteps(m, root, index) : \A k \in MissingSteps(m, root, index) : j <= k

\* C11: get_node(root, index) fails with RootNotInStore(root) iff root is
\* not a key, also at depth 0; otherwise it walks from root reading the index
\* bits from bit depth-1 down to bit 0, left on 0 and right on 1, and returns
\* the digest reached after depth steps, or fails with NodeNotInStore(h, index)
\* for the first digest h on the walk, before the final position, that is not
\* a key.
C11_GetNodeWalk ==
    last.op = "get_node" =>
        LET root == last.args[1]
            index == last.args[2]
        IN  /\ (last.ret = <<"Err", "RootNotInStore", root>>) <=> (root \notin DOMAIN nodes)
            /\ root \in DOMAIN nodes =>
                   IF MissingSteps(nodes, root, index) = {}
                   THEN last.ret = Ok(WalkTo(nodes, root, index, index.depth))
                   ELSE last.ret = <<"Err", "NodeNotInStore",
                                     WalkTo(nodes, root, index, FirstMissing(nodes, root, index)),
                                     index>>

\* get_node read a position of full depth whose bits differ, under a created
\* root whose mirrored position holds another digest
C11_Witness ==
    /\ last.op = "get_node"
    /\ last.args[1] \in ExtraKeys(nodes)
    /\ last.args[2] = NodeIndex(MaxDepth, 1)
    /\ IsOk(last.ret)
    /\ last.ret # get_node(nodes, last.args[1], NodeIndex(MaxDepth, Pow2(MaxDepth - 1)))

\* get_node met, below a root that is a key, a digest that is not a key
C11_WitnessMissing ==
    /\ last.op = "get_node"
    /\ last.args[1] \in DOMAIN nodes
    /\ last.ret[1] = "Err"
    /\ last.ret[2] = "NodeNotInStore"
    /\ last.ret[3] # last.args[1]

\* an index that fits in tree_depth bits
Fits(tree_depth, index) == tree_depth >= 31 \/ index < Pow2(tree_depth)

StopDepths(m, root, tree_depth, index) ==
    {d \in 0..(tree_depth - 1) :
        LET h == WalkTo(m, root, NodeIndex(tree_depth, index), d)
        IN  h = EmptyRoot(tree_depth - d) \/ h \notin DOMAIN m}

FirstStop(m, root, tree_depth, index) ==
    CHOOSE d \in StopDepths(m, root, tree_depth, index) :
        \A e \in StopDepths(m, root, tree_depth, index) : d <= e

\* C13: for tree_depth in 1..=64, an index that fits and a root that is a
\* key, get_leaf_depth follows the positions get_node follows (most
\* significant of the tree_depth index bits first) and returns the smallest
\* d < tree_depth at which the digest reached is the empty-subtree digest of
\* depth d or is not a key; without such a d it returns tree_depth when the
\* digest at depth tree_depth is not a key and fails with
\* DepthTooBig(tree_depth + 1) when it is.  For the all-empty root of depth
\* tree_depth it returns 0 for any index.
C13_LeafDepth ==
    (/\ last.op = "get_leaf_depth"
     /\ last.args[1] \in DOMAIN nodes
     /\ last.args[2] \in 1..MaxIndexDepth
     /\ Fits(last.args[2], last.args[3]))
        => LET root == last.args[1]
               tree_depth == last.args[2]
               index == last.args[3]
           IN  /\ IF StopDepths(nodes, root, tree_depth, index) # {}
                  THEN last.ret = Ok(FirstStop(nodes, root, tree_depth, index))
                  ELSE IF WalkTo(nodes, root, NodeIndex(tree_depth, index), tree_depth)
                              \notin DOMAIN nodes
                  THEN last.ret = Ok(tree_depth)
                  ELSE last.ret = <<"Err", "DepthTooBig", tree_depth + 1>>
               /\ root = EmptyRoot(tree_depth) => last.ret = Ok(0)

\* get_leaf_depth stopped below the root and above the leaves, at an empty
\* subtree of a created tree of full depth
C13_Witness ==
    /\ last.op = "get_leaf_depth"
    /\ last.args[1] \in ExtraKeys(nodes)
    /\ last.args[2] = MaxDepth
    /\ last.args[3] = 1
    /\ last.ret = Ok(MaxDepth - 1)
    /\ WalkTo(nodes, last.args[1], NodeIndex(MaxDepth, 1), MaxDepth - 1) = EmptyRoot(1)

\* get_leaf_depth found a key at depth tree_depth
C13_WitnessTooDeep ==
    /\ last.op = "get_leaf_depth"
    /\ last.args[1] \in ExtraKeys(nodes)
    /\ last.args[2] = 1
    /\ last.ret = <<"Err", "DepthTooBig", 2>>

\* get_leaf_depth was asked about the all-empty root of depth tree_depth
C13_WitnessEmpty ==
    /\ last.op = "get_leaf_depth"
    /\ last.args[1] = EmptyRoot(last.args[2])
    /\ last.args[2] = MaxDepth
    /\ last.args[3] = 2
    /\ last.ret = Ok(0)

\* C14: for every tree_depth greater than 64, get_leaf_depth fails with
\* DepthTooBig(tree_depth) for every root, present or absent, and every
\* index, without reading the store (the same call on a recording backend
\* over the same entries records nothing); for tree_depth <= 64 an index
\* that does not fit in tree_depth bits fails with the error of the index
\* construction before the root is checked.
C14_DepthBound ==
    last.op = "get_leaf_depth" =>
        LET root == last.args[1]
            tree_depth == last.args[2]
            index == last.args[3]
        IN  /\ tree_depth > MaxIndexDepth =>
                   /\ last.ret = <<"Err", "DepthTooBig", tree_depth>>
                   /\ DOMAIN rec_get_leaf_depth(nodes, <<>>, root, tree_depth, index).trace = {}
            /\ (tree_depth <= MaxIndexDepth /\ ~Fits(tree_depth, index)) =>
                   /\ last.ret = <<"Err", "InvalidNodeIndex", tree_depth, index>>
                   /\ DOMAIN rec_get_leaf_depth(nodes, <<>>, root, tree_depth, index).trace = {}

\* get_leaf_depth was called with tree_depth 65 on the root of a created tree
C14_Witness ==
    /\ last.op = "get_leaf_depth"
    /\ last.args[1] \in ExtraKeys(nodes)
    /\ last.args[2] = MaxIndexDepth + 1
    /\ last.ret = <<"Err", "DepthTooBig", MaxIndexDepth + 1>>

\* get_leaf_depth was called with an index too wide for the depth and a
\* root that is not a key
C14_WitnessIndex ==
    /\ last.op = "get_leaf_depth"
    /\ last.args[1] \notin DOMAIN nodes
    /\ last.args[2] = MaxDepth
    /\ last.args[3] = Pow2(MaxDepth)
    /\ last.ret[2] = "InvalidNodeIndex"

----------------------------------------------------------------------------
\* Invariants of the plain store

\* the empty-subtree digest at depth d of the tree of depth 255
EmptyAt(d) == EmptyRoot(EmptyDepth - d)

\* the store holds, for the empty-subtree digest at depth d, the Node whose
\* children are both the empty-subtree digest at depth d + 1
HoldsEmpty(m, d) ==
    /\ EmptyAt(d) \in DOMAIN m
    /\ m[EmptyAt(d)] = Node(EmptyAt(d + 1), EmptyAt(d + 1))

\* C15 as stated: a new store holds exactly 254 entries, one per
\* empty-subtree level, each mapping the empty-subtree digest at depth d to
\* the Node of two empty-subtree digests at depth d + 1, and these entries
\* are present in every reachable state.
C15_AsStated ==
    /\ steps = 0 =>
           /\ num_internal_nodes(nodes) = 254
           /\ \A k \in DOMAIN nodes :
                  \E d \in 0..(EmptyDepth - 1) : k = EmptyAt(d) /\ HoldsEmpty(nodes, d)
    /\ \A d \in 0..(EmptyDepth - 1) : EmptyAt(d) \in DOMAIN new => HoldsEmpty(nodes, d)

\* C15, amended: a new store holds exactly 255 entries, one for each depth
\* d in 0..=254 of the empty tree of depth 255, mapping the empty-subtree
\* digest at depth d to the Node of two empty-subtree digests at depth
\* d + 1 (at d = 254 the children are the empty leaf), and these entries are
\* present, unchanged, in every reachable state.
C15_Bootstrap ==
    /\ steps = 0 =>
           /\ num_internal_nodes(nodes) = 255
           /\ DOMAIN nodes = {EmptyAt(d) : d \in 0..(EmptyDepth - 1)}
    /\ \A d \in 0..(EmptyDepth - 1) : HoldsEmpty(nodes, d)
    /\ HoldsEmpty(nodes, EmptyDepth - 1) /\ EmptyAt(EmptyDepth) = DefaultDigest

\* two empty subtrees were merged into a digest the bootstrap entries
\* already hold, after another operation added entries
C15_Witness ==
    /\ steps = MaxSteps
    /\ last.op = "merge_roots"
    /\ last.args = <<EmptyRoot(1), EmptyRoot(1)>>
    /\ last.ret = Ok(EmptyAt(EmptyDepth - 2))
    /\ ExtraKeys(nodes) # {}
    /\ num_internal_nodes(nodes) > 255
    /\ HoldsEmpty(nodes, EmptyDepth - 2)

----------------------------------------------------------------------------
\* Serialization.  A byte stream is modelled as a sequence of units: the
\* u64 count is one unit, a digest is DigestWidth units.

\* units an encoded digest occupies
DigestWidth == 2

\* ByteWriter::write_u64
write_u64(value) == <<<<"u64", value>>>>

\* RpoDigest::write_into: the elements of the digest, in order
write_digest(digest) == [j \in 1..DigestWidth |-> <<"felt", digest, j>>]

\* Serializable for Node: left, then right
write_node(node) == write_digest(node.left) \o write_digest(node.right)

\* the loop of write_into over the entries in iteration order
RECURSIVE write_entries(_, _)
write_entries(m, order) ==
    IF order = <<>> THEN <<>>
    ELSE write_digest(Head(order)) \o write_node(m[Head(order)])
             \o write_entries(m, Tail(order))

\* Serializable for GenericMerkleStore: the count, then key and Node of
\* every entry; order is the iteration order of the map
write_into(m, order) == write_u64(Cardinality(DOMAIN m)) \o write_entries(m, order)

\* a reader: the source and the position of the next unit
Reader(source, pos) == [source |-> source, pos |-> pos]

\* ByteReader::read_u64: [ret, reader]
read_u64(reader) ==
    IF reader.pos > Len(reader.source)
    THEN [ret |-> <<"Err", "UnexpectedEOF">>, reader |-> reader]
    ELSE IF reader.source[reader.pos][1] # "u64"
    THEN [ret |-> <<"Err", "InvalidValue">>, reader |-> reader]
    ELSE [ret |-> Ok(reader.source[reader.pos][2]),
          reader |-> Reader(reader.source, reader.pos + 1)]

\* RpoDigest::read_from: [ret, reader]
read_digest(reader) ==
    LET from == reader.pos
        upto == reader.pos + DigestWidth - 1
    IN  IF upto > Len(reader.source)
        THEN [ret |-> <<"Err", "UnexpectedEOF">>, reader |-> reader]
        ELSE IF \E j \in 1..DigestWidth :
                    \/ reader.source[from + j - 1][1] # "felt"
                    \/ Len(reader.source[from + j - 1]) # 3
        THEN [ret |-> <<"Err", "InvalidValue">>, reader |-> reader]
        ELSE IF \E j \in 1..DigestWidth :
                    \/ reader.source[from + j - 1][3] # j
                    \/ reader.source[from + j - 1][2] # reader.source[from][2]
        THEN [ret |-> <<"Err", "InvalidValue">>, reader |-> reader]
        ELSE [ret |-> Ok(reader.source[from][2]), reader |-> Reader(reader.source, upto + 1)]

\* Deserializable for Node: left, then right
read_node(reader) ==
    LET left == read_digest(reader)
        right == read_digest(left.reader)
    IN  IF ~IsOk(left.ret) THEN left
        ELSE IF ~IsOk(right.ret) THEN right
        ELSE [ret |-> Ok(Node(left.ret[2], right.ret[2])), reader |-> right.reader]

\* read_from starting from a bootstrapped store instead of an empty map
RECURSIVE read_entries(_, _, _)
read_from_bootstrapped(source) ==
    LET len == read_u64(Reader(source, 1))
    IN  IF ~IsOk(len.ret) THEN len.ret
        ELSE read_entries(len.reader, len.ret[2], new)

\* the loop of read_from with `len` entries left to read
read_entries(reader, len, m) ==
    IF len = 0 THEN Ok(m)
    ELSE LET key == read_digest(reader)
             value == read_node(key.reader)
         IN  IF ~IsOk(key.ret) THEN key.ret
             ELSE IF ~IsOk(value.ret) THEN value.ret
             ELSE read_entries(value.reader, len - 1, insert(m, key.ret[2], value.ret[2]))

\* Deserializable for GenericMerkleStore<MerkleMap>
read_from(source) ==
    LET len == read_u64(Reader(source, 1))
    IN  IF ~IsOk(len.ret) THEN len.ret
        ELSE read_entries(len.reader, len.ret[2], <<>>)

\* the store made from an empty map
InitSer ==
    /\ nodes = from_map(<<>>)
    /\ last = NoOp
    /\ steps = 0
    /\ trees = <<>>
    /\ rec = NoRec
    /\ part = <<>>

\* the orders in which the entries of a map can be iterated
Orders(m) ==
    {order \in [1..Cardinality(DOMAIN m) -> DOMAIN m] :
        \A i, j \in 1..Cardinality(DOMAIN m) : order[i] = order[j] => i = j}

\* store.write_into(&mut target): the target holds the encoding
WriteInto ==
    \E order \in Orders(nodes) :
        /\ last' = [op |-> "write_into", args |-> <<>>, ret |-> write_into(nodes, order)]
        /\ UNCHANGED <<nodes, steps, trees, rec, part>>

\* MerkleStore::read_from(&mut source) on the encoding just written, or on
\* the first n units of it
ReadFrom ==
    /\ last.op = "write_into"
    /\ \E n \in 0..Len(last.ret) :
           LET source == SubSeq(last.ret, 1, n)
           IN  last' = [op |-> "read_from", args |-> <<source>>, ret |-> read_from(source)]
    /\ UNCHANGED <<nodes, steps, trees, rec, part>>

NextSer ==
    \/ MergeRoots
    \/ WriteInto
    \/ ReadFrom

SpecSer == InitSer /\ [][NextSer]_vars

\* the digest whose encoding starts at position pos of a stream
DigestAt(stream, pos) == stream[pos][2]

\* the (key, left, right) triple number i of an encoding
TripleAt(stream, i) ==
    LET base == 1 + (i - 1) * 3 * DigestWidth
    IN  <<DigestAt(stream, base + 1),
          Node(DigestAt(stream, base + 1 + DigestWidth),
               DigestAt(stream, base + 1 + 2 * DigestWidth))>>

EncodedLen(m) == 1 + 3 * DigestWidth * Cardinality(DOMAIN m)

\* C16: decoding the encoding of a plain store gives a store equal to it,
\* with no empty-subtree entries added; the encoding is the entry count
\* followed by exactly that many (key, left, right) triples; decoding a
\* proper prefix of an encoding fails and returns no store.
C16_SerializationRoundTrip ==
    /\ last.op = "write_into" =>
           /\ Len(last.ret) = EncodedLen(nodes)
           /\ last.ret[1] = <<"u64", Cardinality(DOMAIN nodes)>>
           /\ {TripleAt(last.ret, i) : i \in 1..Cardinality(DOMAIN nodes)} = Entries(nodes)
    /\ last.op = "read_from" =>
           IF Len(last.args[1]) = EncodedLen(nodes)
           THEN last.ret = Ok(nodes)
           ELSE last.ret[1] = "Err"

\* a store of two entries was encoded and decoded back
C16_Witness ==
    /\ last.op = "read_from"
    /\ Cardinality(DOMAIN nodes) = 2
    /\ Len(last.args[1]) = EncodedLen(nodes)
    /\ last.ret = Ok(nodes)
    /\ DOMAIN nodes \cap DOMAIN new = {}

\* an encoding cut inside the last digest was decoded
C16_WitnessTruncated ==
    /\ last.op = "read_from"
    /\ Cardinality(DOMAIN nodes) = 2
    /\ Len(last.args[1]) = EncodedLen(nodes) - 1
    /\ last.ret = <<"Err", "UnexpectedEOF">>

----------------------------------------------------------------------------
\* Path insertion

\* the entries derived from a leaf and its sibling path at a position: for
\* every j in 1..Len(path) the digest folded over the first j siblings, with
\* the digest folded over the first j - 1 siblings and sibling j as its
\* children, the sibling on the left when bit j - 1 of the position is 1
DerivedEntries(leaf, path, pos) ==
    {LET below == FoldPath(leaf, SubSeq(path, 1, j - 1), pos)
         above == FoldPath(leaf, SubSeq(path, 1, j), pos)
     IN  <<above, IF Bit(pos, j - 1) = 0 THEN Node(below, path[j]) ELSE Node(path[j], below)>>
        : j \in 1..Len(path)}

\* add_merkle_path(index, leaf, path) did what C17 says of it
AddedAsClaimed(m, index, leaf, path, ret) ==
    /\ ret = Ok(FoldPath(leaf, path, index))
    /\ DerivedEntries(leaf, path, index) \subseteq Entries(m)
    /\ get_path(m, ret[2], NodeIndex(Len(path), index)) = Ok(ValuePath(leaf, path))

\* C17 as stated: for every leaf, every sibling path of length n in 0..=64,
\* the empty path included, and every index that fits in n bits,
\* add_merkle_path(index, leaf, path) returns the digest folded bottom-up from
\* leaf over the siblings by the index bits (leaf itself for the empty
\* path), inserts every derived ancestor as key -> Node{left, right}, and
\* afterwards get_path(returned root, NodeIndex(n, index)) is {leaf, path}.
C17_AsStated ==
    (last.op = "add_merkle_path" /\ Fits(Len(last.args[3]), last.args[1]))
        => AddedAsClaimed(nodes, last.args[1], last.args[2], last.args[3], last.ret)

\* the same for the paths of at least one sibling
C17_NonEmptyPaths ==
    (/\ last.op = "add_merkle_path"
     /\ Len(last.args[3]) >= 1
     /\ Fits(Len(last.args[3]), last.args[1]))
        => AddedAsClaimed(nodes, last.args[1], last.args[2], last.args[3], last.ret)

\* the empty path: the result is RpoDigest::default() whatever the leaf is
C17_EmptyPath ==
    (last.op = "add_merkle_path" /\ last.args[3] = <<>> /\ last.args[1] = 0)
        => last.ret = Ok(DefaultDigest)

\* a path of full length was added at an odd position
C17_Witness ==
    /\ last.op = "add_merkle_path"
    /\ Len(last.args[3]) = MaxDepth
    /\ last.args[1] = 1
    /\ last.args[3][1] # last.args[3][MaxDepth]
    /\ AddedAsClaimed(nodes, last.args[1], last.args[2], last.args[3], last.ret)

\* every entry of a map is keyed by the compression of its children
HashConsistent(m) == \A k \in DOMAIN m : k = merge(m[k].left, m[k].right)

\* C18: in every state reached from new() by merge_roots, add_merkle_path,
\* add_merkle_paths, add_merkle_path_set, set_node and extend with the inner
\* nodes of trees,
\* every entry (key, node) of the store, the bootstrap entries included,
\* satisfies key = compress(node.left, node.right), and so does every entry
\* of a subset of the store.
C18_HashConsistency ==
    /\ HashConsistent(nodes)
    /\ \A k \in DOMAIN new : k \in DOMAIN nodes /\ k = merge(nodes[k].left, nodes[k].right)
    /\ \A root \in TopKeys(nodes) : HashConsistent(subset(nodes, <<root>>))

\* a path of full length was added at an odd position after another
\* operation had added entries, and set apart from the bootstrap entries
\* the store holds at least one entry per level of the path
C18_Witness ==
    /\ steps = MaxSteps
    /\ last.op = "add_merkle_path"
    /\ IsOk(last.ret)
    /\ Len(last.args[3]) = MaxDepth
    /\ last.args[1] = 1
    /\ last.args[2] # last.args[3][1]
    /\ Cardinality(ExtraKeys(nodes)) > MaxDepth
    /\ HashConsistent(nodes)

\* the items of a batch whose add_merkle_path fails
FailingItems(paths) == {i \in 1..Len(paths) : ~Fits(Len(paths[i][3]), paths[i][1])}

\* the number of items before the first failing one
ItemsDone(paths) ==
    IF FailingItems(paths) = {} THEN Len(paths)
    ELSE (CHOOSE i \in FailingItems(paths) : \A j \in FailingItems(paths) : i <= j) - 1

\* the entries derived from the first n items of a batch
BatchEntries(paths, n) ==
    UNION {DerivedEntries(paths[i][2], paths[i][3], paths[i][1]) : i \in 1..n}

\* C19: add_merkle_paths processes the items in order and stops at the first
\* item whose add_merkle_path fails, returning that error; the store then
\* holds every ancestor derived from the items before the failing one and
\* no node inserted for the failing item or a later one.  If no item fails
\* it returns Ok and the store holds the ancestors of all items.
C19_BatchShortCircuit ==
    [][last'.op = "add_merkle_paths" =>
        LET paths == last'.args[1]
            done == ItemsDone(paths)
        IN  /\ Entries(nodes') = Entries(nodes) \cup BatchEntries(paths, done)
            /\ IF done = Len(paths) THEN last'.ret = Ok(<<>>)
               ELSE /\ ~IsOk(last'.ret)
                    /\ last'.ret = add_merkle_path(nodes, paths[done + 1][1], paths[done + 1][2],
                                                   paths[done + 1][3]).ret]_vars

\* a batch of three failed at its second item: the ancestor of the first
\* item is in the store, the ancestors of the third are not
C19_Witness ==
    /\ last.op = "add_merkle_paths"
    /\ Len(last.args[1]) = 3
    /\ ItemsDone(last.args[1]) = 1
    /\ ~IsOk(last.ret)
    /\ BatchEntries(last.args[1], 1) \subseteq Entries(nodes)
    /\ BatchEntries(last.args[1], 1) # {}
    /\ DerivedEntries(last.args[1][3][2], last.args[1][3][3], last.args[1][3][1])
           \cap Entries(nodes) = {}

\* the add_merkle_path calls a caller can make: any path, any leaf, and any
\* index up to the first one too wide for the path
PathCalls == {call \in (0..Pow2(MaxDepth)) \X Atoms \X Paths : call[1] <= Pow2(Len(call[3]))}

\* C20 as stated: some add_merkle_path call on the current store returns an
\* error and leaves a store that differs from the store before the call.
C20_AsStated ==
    \E call \in PathCalls :
        LET r == add_merkle_path(nodes, call[1], call[2], call[3])
        IN  ~IsOk(r.ret) /\ r.store # nodes

\* C20: add_merkle_path validates the index before it derives or inserts
\* any node, so in every reachable state every add_merkle_path call that
\* returns an error leaves the store exactly as it was before the call.
C20_FailureLeavesStore ==
    \A call \in PathCalls :
        LET r == add_merkle_path(nodes, call[1], call[2], call[3])
        IN  ~IsOk(r.ret) => r.store = nodes

\* an add_merkle_path call with a non-empty path failed on a store to which
\* an earlier operation had added entries, and none of the ancestors the
\* path would derive is in the store
C20_Witness ==
    /\ last.op = "add_merkle_path"
    /\ ~IsOk(last.ret)
    /\ last.args[3] # <<>>
    /\ nodes # new
    /\ DerivedEntries(last.args[2], last.args[3], last.args[1]) \cap Entries(nodes) = {}

----------------------------------------------------------------------------
\* Reads, subset and failing updates: what they leave alone

\* subset(roots) with the result kept by the caller: the source is borrowed
\* immutably, the new store is owned by the caller
SubsetOwned ==
    \E roots \in RootSeqs(nodes) :
        /\ steps < MaxSteps
        /\ steps' = steps + 1
        /\ part' = subset(nodes, roots)
        /\ last' = [op |-> "subset", args |-> <<roots>>, ret |-> Ok(<<>>)]
        /\ UNCHANGED <<nodes, trees, rec>>

\* merge_roots on the store subset returned
MergePart ==
    /\ part # <<>>
    /\ steps < MaxSteps
    /\ \E l \in ExtraKeys(part) \cup {Leaf(1)}, r \in ExtraKeys(part) \cup {Leaf(1)} :
           LET merged == merge_roots(part, l, r)
           IN  /\ part' = merged.store
               /\ last' = [op |-> "part.merge_roots", args |-> <<l, r>>, ret |-> merged.ret]
    /\ steps' = steps + 1
    /\ UNCHANGED <<nodes, trees, rec>>

NextFrame ==
    \/ MergeKeys
    \/ SetNode
    \/ GetNode
    \/ GetPath
    \/ GetLeafDepth
    \/ SubsetOwned
    \/ MergePart

SpecFrame == InitRead /\ [][NextFrame]_vars

\* the errors of a lookup that does not find a node
NotInStore(ret) == ret[1] = "Err" /\ ret[2] \in {"RootNotInStore", "NodeNotInStore"}

\* C21: get_node, get_path, get_leaf_depth and subset leave the key/value
\* map of the store as it was, whether they succeed or fail; the store
\* subset returned and its source are independent (an insertion into one
\* leaves the other as it was, so the new key is not visible there); and a
\* set_node call failing with RootNotInStore or NodeNotInStore leaves the
\* store as it was.
C21_Frame ==
    [][/\ last'.op \in {"get_node", "get_path", "get_leaf_depth", "subset"} => nodes' = nodes
       /\ last'.op \in {"get_node", "get_path", "get_leaf_depth"} => part' = part
       /\ last'.op = "subset" => part' = subset(nodes, last'.args[1])
       /\ last'.op \in {"merge_roots", "set_node"} =>
              /\ part' = part
              /\ \A k \in DOMAIN nodes' \ DOMAIN nodes : part # <<>> => k \notin DOMAIN part'
       /\ last'.op = "part.merge_roots" =>
              /\ nodes' = nodes
              /\ part' = insert(part, last'.ret[2], Node(last'.args[1], last'.args[2]))
       /\ (last'.op = "set_node" /\ NotInStore(last'.ret)) => nodes' = nodes]_vars

\* subset returned a store and merge_roots then added a key to the source:
\* the key is in the source and not in the store subset returned
C21_Witness ==
    /\ part # <<>>
    /\ last.op = "merge_roots"
    /\ last.ret[2] \in DOMAIN nodes
    /\ last.ret[2] \notin DOMAIN part

\* a key added to the store subset returned is not in the source
C21_WitnessPart ==
    /\ last.op = "part.merge_roots"
    /\ last.ret[2] \in DOMAIN part
    /\ last.ret[2] \notin DOMAIN nodes
    /\ ExtraKeys(nodes) # {}

\* set_node failed with NodeNotInStore on a store holding a tree
C21_WitnessSetNode ==
    /\ last.op = "set_node"
    /\ last.ret[1] = "Err"
    /\ last.ret[2] = "NodeNotInStore"
    /\ ExtraKeys(nodes) # {}

\* set_node failed with RootNotInStore after a key was created
C21_WitnessSetNodeRoot ==
    /\ last.op = "set_node"
    /\ last.ret[1] = "Err"
    /\ last.ret[2] = "RootNotInStore"
    /\ ExtraKeys(nodes) # {}

\* a read failed and a read succeeded on a store holding a tree
C21_WitnessReads ==
    /\ last.op \in {"get_node", "get_path", "get_leaf_depth"}
    /\ ExtraKeys(nodes) # {}

----------------------------------------------------------------------------
\* get_path against get_node

\* the child not taken at the step of the walk that reads bit j of the index
NotTaken(m, root, index, j) ==
    LET parent == WalkTo(m, root, index, index.depth - 1 - j)
    IN  IF Bit(index.value, j) = 0 THEN m[parent].right ELSE m[parent].left

\* C22: get_path(root, index) succeeds iff get_node(root, index) succeeds;
\* on success its value is get_node's result, its path has one element for
\* every bit of the index, and element j (from 0) is the child not taken at
\* the step that read bit j, so element 0 is the sibling of the target and
\* the last element is a child of root; on failure both return the same
\* error with the same arguments.
C22_PathAgreesWithNode ==
    last.op \in {"get_path", "get_node"} =>
        LET root == last.args[1]
            index == last.args[2]
            opening == get_path(nodes, root, index)
            node == get_node(nodes, root, index)
        IN  /\ last.ret = IF last.op = "get_path" THEN opening ELSE node
            /\ IsOk(opening) <=> IsOk(node)
            /\ ~IsOk(opening) => opening = node
            /\ IsOk(opening) =>
                   /\ opening[2].value = node[2]
                   /\ Len(opening[2].path) = index.depth
                   /\ \A j \in 0..(index.depth - 1) :
                          opening[2].path[j + 1] = NotTaken(nodes, root, index, j)
                   /\ index.depth > 0 =>
                          opening[2].path[index.depth] \in {nodes[root].left, nodes[root].right}

\* get_path opened a position of full depth under a created root: the
\* siblings at the two levels differ
C22_Witness ==
    /\ last.op = "get_path"
    /\ IsOk(last.ret)
    /\ last.args[1] \in ExtraKeys(nodes)
    /\ last.args[2].depth = MaxDepth
    /\ last.ret[2].path[1] # last.ret[2].path[MaxDepth]
    /\ last.ret[2].path[1] # last.ret[2].value

\* get_path failed below a root that is a key
C22_WitnessMissing ==
    /\ last.op = "get_path"
    /\ last.ret[1] = "Err"
    /\ last.ret[2] = "NodeNotInStore"

\* get_path failed at a root that is no key, asked for the root position
C22_WitnessRoot ==
    /\ last.op = "get_path"
    /\ last.ret[1] = "Err"
    /\ last.ret[2] = "RootNotInStore"
    /\ last.args[2].depth = 0

====
